---- MODULE Spec2Model ----
(***************************************************************************)
(* Session store (src/lib/auth-react.ts), REST client (src/services/api.js) *)
(* and chat tool-call dispatcher (src/components/ChatInterface.jsx) of the  *)
(* todo-ai-chatbot frontend, as one state machine.                          *)
(*                                                                         *)
(* JavaScript values are modelled as follows: `undefined` (and a missing   *)
(* object key) is the marker Undef, the empty string is "", both are falsy;  *)
(* every other string is truthy.  An object is a function from its possible *)
(* keys to values, a missing key mapping to Undef.  A missing object is     *)
(* NoObj.  One action is one run of a handler from its start (or from the   *)
(* resumption of an await) to its next await or its end.                    *)
(***************************************************************************)
EXTENDS Naturals, Sequences, FiniteSets

VARIABLES
    storage,      \* localStorage entry 'user': NoEntry or [text |-> token sequence]
    _session,     \* auth-react.ts module variable _session
    _loading,     \* auth-react.ts module variable _loading
    location,     \* window.location.href (route part)
    hooks,        \* per view: the useSession() hook instance (stage, session, loading)
    audit,        \* what the session store has done since the page was loaded
    dash,         \* Dashboard state: tasks, loading, its pending effect and its fetches
    chatHost,     \* which component rendered ChatInterface: decides the onTaskUpdate prop
    messages,     \* ChatInterface state `messages`
    input,        \* ChatInterface state `input`
    isLoading,    \* ChatInterface state `isLoading`
    pc,           \* position of the running handleSubmit: "idle", "awaitChat", "awaitTool"
    turn,         \* the running (or last) handleSubmit call: its locals and what it did
    inflight,     \* requests handed to fetch() and not yet settled
    timers,       \* pending setTimeout(() => onTaskUpdate(), 500) callbacks
    turns,        \* number of accepted submissions so far
    lastEvent     \* what the last step did

sessionVars == <<storage, _session, _loading, location, hooks, audit>>
chatVars    == <<chatHost, messages, input, isLoading, pc, turn, inflight, timers, turns>>
vars        == <<storage, _session, _loading, location, hooks, audit, dash, chatHost, messages,
                 input, isLoading, pc, turn, inflight, timers, turns, lastEvent>>

----------------------------------------------------------------------------
(* Bounds *)

MaxTurns == 2   \* accepted chat submissions explored
MaxCalls == 3   \* longest tool_calls list explored
MaxTasks == 3   \* longest task list a fetch returns

----------------------------------------------------------------------------
(* JavaScript values *)

Undef == "undefined"
Null  == "null"
NoObj == [absent |-> TRUE]

Truthy(v) == v # Undef /\ v # Null /\ v # ""

\* a || b on values
Or(a, b) == IF Truthy(a) THEN a ELSE b

----------------------------------------------------------------------------
(* Session store: src/lib/auth-react.ts *)

DEMO_UUID == "123e4567-e89b-12d3-a456-426614174000"

generateUUID == DEMO_UUID

UserKeys == <<"id", "email", "name">>

NoEntry   == [absent |-> TRUE]
NoSession == [null |-> TRUE]

\* JSON.stringify of a user object: the keys that are defined, in insertion order
RECURSIVE StringifyKeys(_, _)
StringifyKeys(u, i) ==
    IF i > Len(UserKeys) THEN <<>>
    ELSE (IF u[UserKeys[i]] = Undef THEN <<>> ELSE <<UserKeys[i], u[UserKeys[i]]>>)
         \o StringifyKeys(u, i + 1)

\* a serialisation that leaves the id out
StringifyWithoutId(u) == <<"{">> \o StringifyKeys(u, 2) \o <<"}">>

Stringify(u) == <<"{">> \o StringifyKeys(u, 1) \o <<"}">>

\* JSON.parse: does the text parse at all
Parses(text) ==
    \/ text = <<"null">>
    \/ /\ Len(text) >= 2
       /\ text[1] = "{"
       /\ text[Len(text)] = "}"
       /\ Len(text) % 2 = 0
       /\ \A i \in 2..(Len(text) - 1) : text[i] \notin {"{", "}"}

\* the value of key k in a parsed object text, Undef when the key is missing
KeyValue(text, k) ==
    LET at == {i \in 2..(Len(text) - 1) : i % 2 = 0 /\ text[i] = k}
    IN IF at = {} THEN Undef
       ELSE text[(CHOOSE i \in at : \A j \in at : j <= i) + 1]

\* JSON.parse of a text that parses: null, or the object
Parse(text) ==
    IF text = <<"null">> THEN NoObj
    ELSE [id |-> KeyValue(text, "id"), email |-> KeyValue(text, "email"),
          name |-> KeyValue(text, "name")]

\* email.split('@')[0]
Emails == {"ann@x.io"}
LocalPart(email) == IF email = "ann@x.io" THEN "ann" ELSE email
Names == {"Ann"}

\* what other code of the origin may leave under the key 'user'
RawTexts ==
    { <<>>,                           \* the empty string
      <<"{", "id">>,                  \* truncated: does not parse
      <<"{", "}">>,                   \* an object without fields
      <<"{", "id", "u7", "}">> }      \* an object with an id only

Views == {"dashboard", "chat"}

Unmounted == [stage |-> "unmounted", session |-> NoSession, loading |-> TRUE]

\* history of the session store since the page load:
\*   checks: checkSession has run; foundNone: it has run and installed no user;
\*   reloaded: it has run on the entry a signIn/signUp wrote;
\*   signedOut: signOut has run; navigating: window.location.href has been assigned;
\* and across page loads:
\*   signedIn: the entry was written by signIn/signUp and by nothing since
NoAudit == [checks |-> FALSE, foundNone |-> FALSE, reloaded |-> FALSE, signedOut |-> FALSE,
            navigating |-> FALSE, signedIn |-> FALSE]

\* the Dashboard component as it mounts: useState([]) for tasks, useState(true) for loading
\*   fetches: the getUserTasks requests in flight
\* and its history since it mounted:
\*   fetched: the body of the last response applied; called: getUserTasks has been called;
\*   redirected: router.push('/login') has been called
NoDash == [tasks |-> <<>>, loading |-> TRUE, fetches |-> <<>>, fetched |-> NoObj,
           called |-> FALSE, redirected |-> FALSE]

\* session?.user?.id
SessionUserId(s) ==
    IF s = NoSession THEN Undef
    ELSE IF s.user = NoObj THEN Undef
    ELSE s.user.id

\* session?.user is truthy
SessionHasUser(s) == s # NoSession /\ s.user # NoObj

\* a checkSession without the try/catch fallback: it installs whatever it can read
checkSessionTrusting(entry) ==
    IF entry # NoEntry /\ entry.text # <<>> THEN [user |-> Parse(entry.text)] ELSE NoSession

\* the body of checkSession: the session it installs for a given localStorage entry
checkSession(entry) ==
    IF entry # NoEntry /\ entry.text # <<>>
    THEN IF Parses(entry.text) THEN [user |-> Parse(entry.text)] ELSE NoSession
    ELSE NoSession

\* a hook that starts from useState(false) for its loading flag
RenderHookNotLoading(v) ==
    hooks' = [hooks EXCEPT ![v] = [stage |-> "rendered", session |-> _session, loading |-> FALSE]]

\* first render of a component that calls useSession(): useState(_session), useState(_loading)
RenderHook(v) ==
    hooks' = [hooks EXCEPT ![v] = [stage |-> "rendered", session |-> _session, loading |-> _loading]]

\* the useEffect of useSession(), run once after the first render
EffectHook(v) ==
    IF _loading
    THEN LET s == checkSession(storage) IN
         /\ _session' = s
         /\ _loading' = FALSE
         /\ hooks' = [hooks EXCEPT ![v] = [stage |-> "mounted", session |-> s, loading |-> FALSE]]
         /\ audit' = [audit EXCEPT !.checks = TRUE,
                                   !.foundNone = audit.foundNone \/ ~SessionHasUser(s),
                                   !.reloaded = audit.reloaded \/ audit.signedIn]
    ELSE /\ hooks' = [hooks EXCEPT ![v] = [stage |-> "mounted", session |-> _session, loading |-> _loading]]
         /\ UNCHANGED <<_session, _loading, audit>>

\* a signOut that removes the entry and navigates, and forgets the module variable
signOutStoreKeepsSlot(st) ==
    [st EXCEPT !.storage = NoEntry, !.location = "/login"]

\* the state signOut leaves the store in
signOutStore(st) ==
    [st EXCEPT !.storage = NoEntry, !._session = NoSession, !.location = "/login"]

\* a signIn that sets the module variables and does not write localStorage
signInStoreSlotOnly(st, user, redirect) ==
    [st EXCEPT !._session = [user |-> user],
               !._loading = FALSE,
               !.location = IF redirect THEN "/" ELSE st.location]

\* the state signIn.email / signUp.email leave the store in
signInStore(st, user, redirect) ==
    [st EXCEPT !.storage = [text |-> Stringify(user)],
               !._session = [user |-> user],
               !._loading = FALSE,
               !.location = IF redirect THEN "/" ELSE st.location]

Store == [storage |-> storage, _session |-> _session, _loading |-> _loading, location |-> location]

SetStore(st) ==
    /\ storage' = st.storage
    /\ _session' = st._session
    /\ _loading' = st._loading
    /\ location' = st.location

----------------------------------------------------------------------------
(* REST client: src/services/api.js *)

\* userId || '123e4567-...'
actualUserId(userId) == Or(userId, DEMO_UUID)

\* JSON.stringify of a request body: the keys whose value is defined
StringifyBody(obj) == { <<k, obj[k]>> : k \in {f \in DOMAIN obj : obj[f] # Undef} }

sendMessage(userId, message, conversationId) ==
    [op |-> "sendMessage", method |-> "POST",
     path |-> <<"api", actualUserId(userId), "chat">>,
     body |-> { <<"message", message>>, <<"conversation_id", conversationId>> }]

getUserTasks(userId) ==
    [op |-> "getUserTasks", method |-> "GET",
     path |-> <<"api", actualUserId(userId), "tasks?status=all">>,
     body |-> {}]

createTask(userId, taskData) ==
    [op |-> "createTask", method |-> "POST",
     path |-> <<"api", actualUserId(userId), "tasks">>,
     body |-> StringifyBody(taskData)]

updateTask(userId, taskId, taskData) ==
    [op |-> "updateTask", method |-> "PUT",
     path |-> <<"api", actualUserId(userId), "tasks", taskId>>,
     body |-> StringifyBody(taskData)]

deleteTask(userId, taskId) ==
    [op |-> "deleteTask", method |-> "DELETE",
     path |-> <<"api", actualUserId(userId), "tasks", taskId>>,
     body |-> {}]

----------------------------------------------------------------------------
(* Tool calls and responses of the chat backend *)

ArgKeys == {"title", "task_title", "description", "priority", "status", "task_id"}

EmptyObj == [k \in ArgKeys |-> Undef]

Obj(title, task_title, description, priority, status, task_id) ==
    [title |-> title, task_title |-> task_title, description |-> description,
     priority |-> priority, status |-> status, task_id |-> task_id]

\* every argument object over a few values per key
AllArgs ==
    { Obj(t, tt, d, p, s, id) :
        t \in {Undef, "", "Buy milk"}, tt \in {Undef, "Walk dog"}, d \in {Undef, "2 litres"},
        p \in {Undef, "", "high"}, s \in {Undef, "pending"}, id \in {Undef, "T1"} }

ToolNames == {"add_task", "update_task", "complete_task", "delete_task", "list_tasks"}

\* every tool call shape: arguments and legacy parameters each present or missing
AllToolCalls ==
    { [name |-> n, arguments |-> a, parameters |-> p] :
        n \in ToolNames,
        a \in AllArgs \cup {NoObj},
        p \in {NoObj, Obj("Call mum", Undef, Undef, "low", Undef, "T2")} }

Call(n, a) == [name |-> n, arguments |-> a, parameters |-> NoObj]

\* the tool calls the backend answers with in the system specification
CallPool ==
    { Call("add_task", Obj("Buy milk", Undef, Undef, Undef, Undef, Undef)),
      Call("complete_task", Obj(Undef, Undef, Undef, Undef, "pending", "T1")),
      Call("list_tasks", EmptyObj) }

RECURSIVE SeqsUpTo(_, _)
SeqsUpTo(S, n) ==
    IF n = 0 THEN {<<>>}
    ELSE LET shorter == SeqsUpTo(S, n - 1)
         IN shorter \cup { Append(q, x) : q \in {r \in shorter : Len(r) = n - 1}, x \in S }

ConvIds == {"c1"}

\* chat response bodies: tool_calls missing, or a list of at most MaxCalls calls
Responses ==
    { [response |-> "ok", conversation_id |-> c, tool_calls |-> NoObj] : c \in ConvIds }
    \cup
    { [response |-> "ok", conversation_id |-> c, tool_calls |-> [list |-> l]] :
        c \in ConvIds, l \in SeqsUpTo(CallPool, MaxCalls) }

----------------------------------------------------------------------------
(* Dashboard: src/components/Dashboard.tsx *)

\* the tasks of a response of GET /api/{userId}/tasks, by their status
Statuses == {"pending", "completed", "in_progress"}
TaskRecords == { [status |-> st] : st \in Statuses }

\* response bodies of the task list: tasks missing, or a list of at most MaxTasks tasks
TaskResponses ==
    { [tasks |-> NoObj] } \cup { [tasks |-> [list |-> l]] : l \in SeqsUpTo(TaskRecords, MaxTasks) }

\* response.tasks || []
ResponseTasks(resp) == IF resp.tasks = NoObj THEN <<>> ELSE resp.tasks.list

\* what the Dashboard's effect and fetchTasks act on
DashState == [location |-> location, dash |-> dash]

\* fetchTasks up to its await, or to its end when the session has no user id
fetchTasks(ds, sess) ==
    IF Truthy(SessionUserId(sess))
    THEN [ds EXCEPT !.dash.fetches = Append(@, getUserTasks(SessionUserId(sess))),
                    !.dash.called = TRUE]
    ELSE [ds EXCEPT !.dash.loading = FALSE]

\* an effect that does not wait for the session to load
WatchSessionWhileLoading(ds, h) ==
    IF ~SessionHasUser(h.session)
    THEN [ds EXCEPT !.location = "/login", !.dash.redirected = TRUE]
    ELSE fetchTasks(ds, h.session)

\* the effect that watches the session, run with the hook values h of a render
WatchSession(ds, h) ==
    IF h.loading THEN ds
    ELSE IF ~SessionHasUser(h.session)
         THEN [ds EXCEPT !.location = "/login", !.dash.redirected = TRUE]
         ELSE fetchTasks(ds, h.session)

\* the effect after the first render (hook values h1) and, when the hook's own effect
\* changed them (to h2), after the render that follows
WatchSessionRuns(ds, h1, h2) ==
    LET first == WatchSession(ds, h1)
    IN IF h2.session = h1.session /\ h2.loading = h1.loading THEN first
       ELSE WatchSession(first, h2)

IsCompleted(t) == t.status = "completed"
IsNotCompleted(t) == t.status # "completed"
IsPending(t) == t.status = "pending"

\* summary cards that count the tasks whose status is 'pending'
SummaryOfPendingStatus(tasks) ==
    [total |-> Len(tasks), pending |-> Len(SelectSeq(tasks, IsPending)),
     completed |-> Len(SelectSeq(tasks, IsCompleted))]

\* the numbers of the summary cards: tasks.length, pendingTasks.length, completedTasks.length
Summary(tasks) ==
    [total |-> Len(tasks), pending |-> Len(SelectSeq(tasks, IsNotCompleted)),
     completed |-> Len(SelectSeq(tasks, IsCompleted))]

\* the Dashboard renders the summary cards and its children once its hook shows a user
DashboardShowsChat ==
    /\ hooks["dashboard"].stage # "unmounted"
    /\ ~hooks["dashboard"].loading
    /\ SessionHasUser(hooks["dashboard"].session)

\* a getUserTasks request resolves: setTasks(response.tasks || []), then the finally block
FetchReturn(resp) ==
    /\ dash.fetches # <<>>
    /\ dash' = [dash EXCEPT !.fetches = Tail(@), !.tasks = ResponseTasks(resp),
                            !.loading = FALSE, !.fetched = resp]
    /\ lastEvent' = "fetch-ok"
    /\ UNCHANGED <<sessionVars, chatVars>>

\* a catch block that empties the list
FetchFailClearsTasks ==
    /\ dash.fetches # <<>>
    /\ dash' = [dash EXCEPT !.fetches = Tail(@), !.tasks = <<>>, !.loading = FALSE]
    /\ lastEvent' = "fetch-fail"
    /\ UNCHANGED <<sessionVars, chatVars>>

\* a getUserTasks request rejects: the catch block logs, then the finally block
FetchFail ==
    /\ dash.fetches # <<>>
    /\ dash' = [dash EXCEPT !.fetches = Tail(@), !.loading = FALSE]
    /\ lastEvent' = "fetch-fail"
    /\ UNCHANGED <<sessionVars, chatVars>>

\* the route change router.push('/login') asked for: the Dashboard is unmounted
RouteChange ==
    /\ dash.redirected
    /\ hooks["dashboard"].stage # "unmounted"
    /\ hooks' = [hooks EXCEPT !["dashboard"] = Unmounted]
    /\ dash' = NoDash
    /\ lastEvent' = "route"
    /\ UNCHANGED <<storage, _session, _loading, location, audit, chatVars>>

----------------------------------------------------------------------------
(* Tool-call dispatcher: handleSubmit of src/components/ChatInterface.jsx *)

\* input.trim()
Inputs == {"", " ", "hi"}
Trim(s) == IF s = " " THEN "" ELSE s

\* the legacy key probed first: call.parameters || call.arguments || {}
CallArgsParametersFirst(call) ==
    IF call.parameters # NoObj THEN call.parameters
    ELSE IF call.arguments # NoObj THEN call.arguments
    ELSE EmptyObj

\* call.arguments || call.parameters || {}
CallArgs(call) ==
    IF call.arguments # NoObj THEN call.arguments
    ELSE IF call.parameters # NoObj THEN call.parameters
    ELSE EmptyObj

\* the switch of handleSubmit has a case for the name
Recognized(name) == name \in {"add_task", "update_task", "complete_task", "delete_task"}

\* the switch with the spread of complete_task written last: { status: 'completed', ...args }
DispatchSpreadLast(call, userId) ==
    LET args == CallArgs(call) IN
    CASE call.name = "add_task" ->
            createTask(userId, [title       |-> Or(args.title, Or(args.task_title, "New Task")),
                                description |-> Or(args.description, ""),
                                priority    |-> Or(args.priority, "medium")])
      [] call.name = "update_task" ->
            updateTask(userId, args.task_id, [title       |-> args.title,
                                              description |-> args.description,
                                              priority    |-> args.priority,
                                              status      |-> args.status])
      [] call.name = "complete_task" ->
            updateTask(userId, args.task_id,
                       [args EXCEPT !.status = IF args.status # Undef THEN args.status
                                               ELSE "completed"])
      [] call.name = "delete_task" ->
            deleteTask(userId, args.task_id)

\* the request one case of the switch issues
Dispatch(call, userId) ==
    LET args == CallArgs(call) IN
    CASE call.name = "add_task" ->
            createTask(userId, [title       |-> Or(args.title, Or(args.task_title, "New Task")),
                                description |-> Or(args.description, ""),
                                priority    |-> Or(args.priority, "medium")])
      [] call.name = "update_task" ->
            updateTask(userId, args.task_id, [title       |-> args.title,
                                              description |-> args.description,
                                              priority    |-> args.priority,
                                              status      |-> args.status])
      [] call.name = "complete_task" ->
            updateTask(userId, args.task_id, [args EXCEPT !.status = "completed"])
      [] call.name = "delete_task" ->
            deleteTask(userId, args.task_id)

\* session?.user?.id || 'demo-user'
TurnUserId(session) == Or(SessionUserId(session), "demo-user")

\* the conversationId of the last message that carries one
RECURSIVE TurnConversationIdOfLastKnown(_)
TurnConversationIdOfLastKnown(msgs) ==
    IF msgs = <<>> THEN Null
    ELSE IF Truthy(msgs[Len(msgs)].conversationId) THEN msgs[Len(msgs)].conversationId
    ELSE TurnConversationIdOfLastKnown(SubSeq(msgs, 1, Len(msgs) - 1))

\* messages[messages.length - 1]?.conversationId || null
TurnConversationId(msgs) ==
    IF msgs = <<>> THEN Null ELSE Or(msgs[Len(msgs)].conversationId, Null)

UserMessage(content) ==
    [role |-> "user", kind |-> "user", content |-> content, conversationId |-> Undef]

AssistantMessage(resp) ==
    [role |-> "assistant", kind |-> "assistant", content |-> resp.response,
     conversationId |-> resp.conversation_id]

ErrorMessage ==
    [role |-> "assistant", kind |-> "error",
     content |-> "Sorry, I encountered an error processing your request.",
     conversationId |-> Undef]

\* the test without its length part: response.tool_calls
HasToolCallsNoLength(resp) == resp.tool_calls # NoObj

\* response.tool_calls && response.tool_calls.length > 0
HasToolCalls(resp) == resp.tool_calls # NoObj /\ Len(resp.tool_calls.list) > 0

ToolCallList(resp) == IF resp.tool_calls = NoObj THEN <<>> ELSE resp.tool_calls.list

\* a switch whose default case leaves the loop
NextRecognizedOrStop(calls, i) ==
    IF i > Len(calls) THEN Len(calls) + 1
    ELSE IF Recognized(calls[i].name) THEN i
    ELSE Len(calls) + 1

\* the first entry at or after i that the switch has a case for (Len + 1 when none)
RECURSIVE NextRecognized(_, _)
NextRecognized(calls, i) ==
    IF i > Len(calls) THEN Len(calls) + 1
    ELSE IF Recognized(calls[i].name) THEN i
    ELSE NextRecognized(calls, i + 1)

\* the entries at or after i that the switch has a case for, in list order
RECURSIVE RecognizedFrom(_, _)
RecognizedFrom(calls, i) ==
    IF i > Len(calls) THEN <<>>
    ELSE (IF Recognized(calls[i].name) THEN <<i>> ELSE <<>>) \o RecognizedFrom(calls, i + 1)

\* a loop that does not await its requests issues all of them at once
IssuedNowNoAwait(calls, i) == RecognizedFrom(calls, i)

\* the entries whose request the for..of loop issues, entered at entry i, before it
\* suspends: `await` stops it at the first request
IssuedNow(calls, i) ==
    LET j == NextRecognized(calls, i)
    IN IF j > Len(calls) THEN <<>> ELSE <<j>>

\* the locals of one handleSubmit call and the record of what it did
\*   sessionId, userId, conversationId: session?.user?.id and the constants of lines 38-40
\*   responded, hasToolCalls, tool_calls: the chat response, once it has arrived
\*   issued: the entries whose request was issued, in the order of issue
\*   settled: the entries whose request has resolved or rejected, in that order
\*   failed: the entry whose request rejected (0: none); chatFailed: the chat request rejected
\*   refreshScheduled: line 92 called setTimeout
NoTurn ==
    [sessionId |-> Undef, userId |-> Undef, conversationId |-> Null,
     responded |-> FALSE, hasToolCalls |-> FALSE, tool_calls |-> <<>>,
     issued |-> <<>>, settled |-> <<>>, failed |-> 0, chatFailed |-> FALSE,
     refreshScheduled |-> FALSE]

\* the onTaskUpdate prop: Dashboard passes fetchTasks, ClientChatInterface passes nothing
HasOnTaskUpdate(host) == host = "dashboard"

ChatMounted == hooks["chat"].stage # "unmounted"

\* a setMessages that keeps only the newest message
SetMessagesReplacing(m) == messages' = IF ChatMounted THEN <<m[Len(m)]>> ELSE messages

\* setMessages called from handleSubmit after an await: React drops the update of a
\* component that has been unmounted
SetMessages(m) == messages' = IF ChatMounted THEN m ELSE messages

\* a loop that lowers the flag as soon as it has handed a call to the REST client
RunLoopIdleWhileAwaiting(t, i, pending) ==
    LET now == IssuedNow(t.tool_calls, i)
        reqs == { [entry |-> now[k], req |-> Dispatch(t.tool_calls[now[k]], t.userId)] :
                    k \in 1..Len(now) }
    IN IF now # <<>>
       THEN /\ inflight' = pending \cup reqs
            /\ turn' = [t EXCEPT !.issued = t.issued \o now]
            /\ pc' = "awaitTool"
            /\ isLoading' = FALSE
            /\ UNCHANGED timers
       ELSE /\ timers' = IF HasOnTaskUpdate(chatHost) THEN timers + 1 ELSE timers
            /\ turn' = [t EXCEPT !.refreshScheduled = HasOnTaskUpdate(chatHost)]
            /\ isLoading' = FALSE
            /\ pc' = "idle"
            /\ inflight' = pending

\* handleSubmit from the for..of loop at entry i to its next await or to its end
RunLoop(t, i, pending) ==
    LET now == IssuedNow(t.tool_calls, i)
        reqs == { [entry |-> now[k], req |-> Dispatch(t.tool_calls[now[k]], t.userId)] :
                    k \in 1..Len(now) }
    IN IF now # <<>>
       THEN /\ inflight' = pending \cup reqs
            /\ turn' = [t EXCEPT !.issued = t.issued \o now]
            /\ pc' = "awaitTool"
            /\ UNCHANGED <<isLoading, timers>>
       ELSE /\ timers' = IF HasOnTaskUpdate(chatHost) THEN timers + 1 ELSE timers
            /\ turn' = [t EXCEPT !.refreshScheduled = HasOnTaskUpdate(chatHost)]
            /\ isLoading' = FALSE
            /\ pc' = "idle"
            /\ inflight' = pending

\* the flag is never raised: setIsLoading(false)
SendingFlagNotRaised == FALSE

\* line 24: setIsLoading(true)
SendingFlag == TRUE

\* line 22: if (!input.trim() || isLoading) return
SubmitRejected(inp, loading) == Trim(inp) = "" \/ loading

\* handleSubmit lines 20-43: the guard, and the synchronous part up to the first await.
\* A submit is a discrete event: React renders the state updates of one handler before
\* it delivers the next event, so the handler reads the current input, isLoading,
\* messages and session.
Submit ==
    /\ ChatMounted
    /\ IF SubmitRejected(input, isLoading)
       THEN /\ lastEvent' = "submit-ignored"
            /\ UNCHANGED <<sessionVars, dash, chatVars>>
       ELSE /\ turns < MaxTurns
            /\ LET userId == TurnUserId(hooks["chat"].session)
                   conversationId == TurnConversationId(messages)
               IN /\ turn' = [NoTurn EXCEPT !.sessionId = SessionUserId(hooks["chat"].session),
                                            !.userId = userId,
                                            !.conversationId = conversationId]
                  /\ inflight' = inflight \cup
                        { [entry |-> 0, submission |-> turns + 1,
                           req |-> sendMessage(userId, input, conversationId)] }
            /\ isLoading' = SendingFlag
            /\ messages' = Append(messages, UserMessage(input))
            /\ input' = ""
            /\ pc' = "awaitChat"
            /\ turns' = turns + 1
            /\ lastEvent' = "submit"
            /\ UNCHANGED <<sessionVars, dash, chatHost, timers>>

\* onChange of the input field, which is disabled while isLoading
TypeInput(v) ==
    /\ ChatMounted
    /\ ~isLoading
    /\ input # v
    /\ input' = v
    /\ lastEvent' = "type"
    /\ UNCHANGED <<sessionVars, dash, chatHost, messages, isLoading, pc, turn, inflight, timers, turns>>

\* the chat request resolves: handleSubmit lines 43-93 up to the next await
ChatResponse(resp) ==
    /\ pc = "awaitChat"
    /\ \E r \in inflight :
          /\ r.entry = 0
          /\ LET t == [turn EXCEPT !.responded = TRUE,
                                   !.hasToolCalls = HasToolCalls(resp),
                                   !.tool_calls = ToolCallList(resp)]
             IN /\ SetMessages(Append(messages, AssistantMessage(resp)))
                /\ IF HasToolCalls(resp)
                   THEN RunLoop(t, 1, inflight \ {r})
                   ELSE /\ turn' = t
                        /\ inflight' = inflight \ {r}
                        /\ isLoading' = FALSE
                        /\ pc' = "idle"
                        /\ UNCHANGED timers
    /\ lastEvent' = "chat-ok"
    /\ UNCHANGED <<sessionVars, dash, chatHost, input, turns>>

\* the catch block without the finally block: isLoading stays set
CatchWithoutFinally ==
    /\ SetMessages(Append(messages, ErrorMessage))
    /\ UNCHANGED isLoading
    /\ pc' = "idle"

\* the catch and finally blocks of handleSubmit (lines 94-104)
CatchFinally ==
    /\ SetMessages(Append(messages, ErrorMessage))
    /\ isLoading' = FALSE
    /\ pc' = "idle"

\* the chat request rejects (network error or HTTP error status)
ChatFail ==
    /\ pc = "awaitChat"
    /\ \E r \in inflight :
          /\ r.entry = 0
          /\ inflight' = inflight \ {r}
    /\ turn' = [turn EXCEPT !.chatFailed = TRUE]
    /\ CatchFinally
    /\ lastEvent' = "chat-fail"
    /\ UNCHANGED <<sessionVars, dash, chatHost, input, timers, turns>>

\* the awaited task request resolves: the loop goes on with the next entry
ToolReturn ==
    /\ pc = "awaitTool"
    /\ \E r \in inflight :
          /\ r.entry > 0
          /\ RunLoop([turn EXCEPT !.settled = Append(turn.settled, r.entry)], r.entry + 1,
                     inflight \ {r})
    /\ lastEvent' = "tool-ok"
    /\ UNCHANGED <<sessionVars, dash, chatHost, messages, input, turns>>

\* a loop with a try/catch of its own around each call: the failure is reported and the
\* loop goes on with the next entry
ToolFailContinues ==
    /\ pc = "awaitTool"
    /\ \E r \in inflight :
          /\ r.entry > 0
          /\ RunLoop([turn EXCEPT !.settled = Append(turn.settled, r.entry), !.failed = r.entry],
                     r.entry + 1, inflight \ {r})
    /\ SetMessages(Append(messages, ErrorMessage))
    /\ lastEvent' = "tool-fail"
    /\ UNCHANGED <<sessionVars, dash, chatHost, input, turns>>

\* the awaited task request rejects: control leaves the loop for the catch block
ToolFail ==
    /\ pc = "awaitTool"
    /\ \E r \in inflight :
          /\ r.entry > 0
          /\ inflight' = inflight \ {r}
          /\ turn' = [turn EXCEPT !.settled = Append(turn.settled, r.entry), !.failed = r.entry]
    /\ CatchFinally
    /\ lastEvent' = "tool-fail"
    /\ UNCHANGED <<sessionVars, dash, chatHost, input, timers, turns>>

\* a pending timeout fires: () => onTaskUpdate()
RefreshFire ==
    /\ timers > 0
    /\ timers' = timers - 1
    /\ dash' = IF hooks["dashboard"].stage # "unmounted"
               THEN fetchTasks(DashState, hooks["dashboard"].session).dash
               ELSE dash
    /\ lastEvent' = "refresh"
    /\ UNCHANGED <<sessionVars, chatHost, messages, input, isLoading, pc, turn, inflight, turns>>

----------------------------------------------------------------------------
(* Views and the session operations *)

RenderDashboard ==
    /\ hooks["dashboard"].stage = "unmounted"
    /\ location = "/"
    /\ RenderHook("dashboard")
    /\ lastEvent' = "render"
    /\ UNCHANGED <<storage, _session, _loading, location, audit, dash, chatVars>>

\* ChatInterface is rendered by Dashboard (with onTaskUpdate) or by ClientChatInterface
RenderChat(host) ==
    /\ hooks["chat"].stage = "unmounted"
    /\ host = "dashboard" => DashboardShowsChat
    /\ RenderHook("chat")
    /\ chatHost' = host
    /\ lastEvent' = "render"
    /\ UNCHANGED <<storage, _session, _loading, location, audit, dash, messages, input, isLoading,
                   pc, turn, inflight, timers, turns>>

\* the effects of a rendered component: the hook's, then for the Dashboard its own
Effect(v) ==
    /\ hooks[v].stage = "rendered"
    /\ EffectHook(v)
    /\ IF v = "dashboard"
       THEN LET ds == WatchSessionRuns(DashState, hooks[v], hooks'[v])
            IN location' = ds.location /\ dash' = ds.dash
       ELSE UNCHANGED <<location, dash>>
    /\ lastEvent' = "effect"
    /\ UNCHANGED <<storage, chatVars>>

SignIn(email, redirect) ==
    /\ SetStore(signInStore(Store, [id |-> generateUUID, email |-> email, name |-> LocalPart(email)],
                            redirect))
    /\ audit' = [audit EXCEPT !.signedIn = TRUE, !.navigating = audit.navigating \/ redirect]
    /\ lastEvent' = "signIn"
    /\ UNCHANGED <<hooks, dash, chatVars>>

SignUp(email, name, redirect) ==
    /\ SetStore(signInStore(Store, [id |-> generateUUID, email |-> email, name |-> name], redirect))
    /\ audit' = [audit EXCEPT !.signedIn = TRUE, !.navigating = audit.navigating \/ redirect]
    /\ lastEvent' = "signUp"
    /\ UNCHANGED <<hooks, dash, chatVars>>

SignOut ==
    /\ SetStore(signOutStore(Store))
    /\ audit' = [audit EXCEPT !.signedOut = TRUE, !.signedIn = FALSE, !.navigating = TRUE]
    /\ lastEvent' = "signOut"
    /\ UNCHANGED <<hooks, dash, chatVars>>

\* other code of the origin writes the localStorage entry
StorageWrite(text) ==
    /\ storage # [text |-> text]
    /\ storage' = [text |-> text]
    /\ audit' = [audit EXCEPT !.signedIn = FALSE]
    /\ lastEvent' = "storage"
    /\ UNCHANGED <<_session, _loading, location, hooks, dash, chatVars>>

\* a full page load (after an assignment to window.location.href, or a reload): the
\* module is evaluated anew and nothing is mounted; localStorage survives
PageLoad ==
    /\ _session' = NoSession
    /\ _loading' = TRUE
    /\ hooks' = [v \in Views |-> Unmounted]
    /\ audit' = [NoAudit EXCEPT !.signedIn = audit.signedIn]
    /\ dash' = NoDash
    /\ chatHost' = "none"
    /\ messages' = <<>>
    /\ input' = ""
    /\ isLoading' = FALSE
    /\ pc' = "idle"
    /\ turn' = NoTurn
    /\ inflight' = {}
    /\ timers' = 0
    /\ turns' = 0
    /\ lastEvent' = "load"
    /\ UNCHANGED <<storage, location>>

----------------------------------------------------------------------------
(* The system *)

\* what an earlier visit may have left in localStorage
InitialEntries ==
    { NoEntry,
      [text |-> Stringify([id |-> generateUUID, email |-> "ann@x.io", name |-> "ann"])],
      [text |-> <<"{", "id", "u7", "}">>],
      [text |-> <<"{", "}">>] }

Init ==
    /\ storage \in InitialEntries
    /\ _session = NoSession
    /\ _loading = TRUE
    /\ location = "/"
    /\ hooks = [v \in Views |-> Unmounted]
    /\ audit = NoAudit
    /\ dash = NoDash
    /\ chatHost = "none"
    /\ messages = <<>>
    /\ input = ""
    /\ isLoading = FALSE
    /\ pc = "idle"
    /\ turn = NoTurn
    /\ inflight = {}
    /\ timers = 0
    /\ turns = 0
    /\ lastEvent = "load"

Next ==
    \/ RenderDashboard
    \/ \E host \in {"dashboard", "client"} : RenderChat(host)
    \/ \E v \in Views : Effect(v)
    \/ RouteChange
    \/ PageLoad
    \/ \E v \in Inputs : TypeInput(v)
    \/ Submit
    \/ \E resp \in Responses : ChatResponse(resp)
    \/ ChatFail
    \/ ToolReturn
    \/ ToolFail
    \/ RefreshFire

\* a visit of the application: the views and the chat, over what localStorage holds
Spec == Init /\ [][Next]_vars

\* every request handed to fetch() settles: it resolves or it rejects
ChatSettles == (\E resp \in Responses : ChatResponse(resp)) \/ ChatFail
ToolSettles == ToolReturn \/ ToolFail

FairSpec == Spec /\ WF_vars(ChatSettles) /\ WF_vars(ToolSettles)

SessionNext ==
    \/ RenderDashboard
    \/ \E host \in {"dashboard", "client"} : RenderChat(host)
    \/ \E v \in Views : Effect(v)
    \/ RouteChange
    \/ PageLoad
    \/ \E e \in Emails, redirect \in BOOLEAN : SignIn(e, redirect)
    \/ \E e \in Emails, n \in Names, redirect \in BOOLEAN : SignUp(e, n, redirect)
    \/ SignOut
    \/ \E text \in RawTexts : StorageWrite(text)

\* the session store under its operations, with the views that read it
SessionSpec == Init /\ [][SessionNext]_vars

\* React runs the effect of every rendered component, and the browser performs the
\* navigation an assignment to window.location.href has asked for
RunsEffects == \E v \in Views : Effect(v)
Navigates   == audit.navigating /\ PageLoad

SessionFairSpec == SessionSpec /\ WF_vars(RunsEffects) /\ WF_vars(Navigates)

\* the store under signIn, signUp, signOut and the session checks of mounting views
\* alone, over any entry an earlier visit or other code of the origin has left
StoreInit ==
    /\ storage \in InitialEntries \cup { [text |-> t] : t \in RawTexts }
    /\ _session = NoSession
    /\ _loading = TRUE
    /\ location = "/"
    /\ hooks = [v \in Views |-> Unmounted]
    /\ audit = NoAudit
    /\ dash = NoDash
    /\ chatHost = "none"
    /\ messages = <<>>
    /\ input = ""
    /\ isLoading = FALSE
    /\ pc = "idle"
    /\ turn = NoTurn
    /\ inflight = {}
    /\ timers = 0
    /\ turns = 0
    /\ lastEvent = "load"

StoreNext ==
    \/ RenderDashboard
    \/ \E host \in {"dashboard", "client"} : RenderChat(host)
    \/ \E v \in Views : Effect(v)
    \/ RouteChange
    \/ PageLoad
    \/ \E e \in Emails, redirect \in BOOLEAN : SignIn(e, redirect)
    \/ \E e \in Emails, n \in Names, redirect \in BOOLEAN : SignUp(e, n, redirect)
    \/ SignOut

StoreSpec == StoreInit /\ [][StoreNext]_vars

----------------------------------------------------------------------------
(* The Dashboard with its task list and the chat it hosts *)

\* chat responses with at most one tool call
DashResponses == { r \in Responses : Len(ToolCallList(r)) <= 1 }

DashNext ==
    \/ RenderDashboard
    \/ \E host \in {"dashboard", "client"} : RenderChat(host)
    \/ \E v \in Views : Effect(v)
    \/ RouteChange
    \/ PageLoad
    \/ \E resp \in TaskResponses : FetchReturn(resp)
    \/ FetchFail
    \/ \E v \in Inputs : TypeInput(v)
    \/ Submit
    \/ \E resp \in DashResponses : ChatResponse(resp)
    \/ ChatFail
    \/ ToolReturn
    \/ ToolFail
    \/ RefreshFire

DashSpec == Init /\ [][DashNext]_vars

----------------------------------------------------------------------------
(* The chat of ClientChatInterface on a page the user may leave *)

\* a client-side route change away from the page: the component and its state are
\* gone; the requests handleSubmit has issued and its continuation are not cancelled
UnmountChat ==
    /\ chatHost = "client"
    /\ ChatMounted
    /\ hooks' = [hooks EXCEPT !["chat"] = Unmounted]
    /\ messages' = <<>>
    /\ input' = ""
    /\ isLoading' = FALSE
    /\ lastEvent' = "unmount"
    /\ UNCHANGED <<storage, _session, _loading, location, audit, dash, chatHost, pc, turn,
                   inflight, timers, turns>>

\* the user comes back to the page once the turn left behind has run to its end
RemountChat == pc = "idle" /\ RenderChat("client")

NavNext ==
    \/ RemountChat
    \/ Effect("chat")
    \/ UnmountChat
    \/ PageLoad
    \/ \E v \in Inputs : TypeInput(v)
    \/ Submit
    \/ \E resp \in DashResponses : ChatResponse(resp)
    \/ ChatFail
    \/ ToolReturn
    \/ ToolFail

NavSpec == Init /\ [][NavNext]_vars

----------------------------------------------------------------------------
(* The dispatch of one tool call, over every shape of call *)

\* chat responses that carry a single tool call of any shape
WideResponses ==
    { [response |-> "ok", conversation_id |-> "c1", tool_calls |-> [list |-> <<c>>]] :
        c \in AllToolCalls }

\* sessions a mounted chat may hold
ChatSessions ==
    { NoSession,
      [user |-> [id |-> generateUUID, email |-> "ann@x.io", name |-> "ann"]],
      [user |-> [id |-> "u7", email |-> Undef, name |-> Undef]] }

\* the chat has accepted a first submission and awaits the chat response
DispatchInit ==
    /\ storage = NoEntry
    /\ \E s \in ChatSessions :
          /\ _session = s
          /\ hooks = [v \in Views |-> IF v = "chat"
                                      THEN [stage |-> "mounted", session |-> s, loading |-> FALSE]
                                      ELSE Unmounted]
          /\ turn = [NoTurn EXCEPT !.sessionId = SessionUserId(s), !.userId = TurnUserId(s)]
          /\ inflight = { [entry |-> 0, submission |-> 1,
                            req |-> sendMessage(TurnUserId(s), "hi", Null)] }
          /\ audit = [NoAudit EXCEPT !.checks = TRUE, !.foundNone = ~SessionHasUser(s)]
    /\ _loading = FALSE
    /\ dash = NoDash
    /\ location = "/"
    /\ chatHost = "client"
    /\ messages = <<UserMessage("hi")>>
    /\ input = ""
    /\ isLoading = TRUE
    /\ pc = "awaitChat"
    /\ timers = 0
    /\ turns = 1
    /\ lastEvent = "submit"

DispatchNext ==
    \/ \E resp \in WideResponses : ChatResponse(resp)
    \/ ToolReturn
    \/ ToolFail

DispatchSpec == DispatchInit /\ [][DispatchNext]_vars

----------------------------------------------------------------------------
(* Properties *)

Range(q) == { q[k] : k \in 1..Len(q) }

TaskRequests == { r \in inflight : r.entry > 0 }
ChatRequests == { r \in inflight : r.entry = 0 }

\* C1: the tool calls of a response are processed one at a time in list order: at most
\* one task request is in flight, the request of an entry is issued only when the
\* requests of all entries issued before it have settled, and the requests are issued
\* in increasing entry order without passing over an entry that has a request.
C1_SequentialInOrder ==
    /\ Cardinality(TaskRequests) <= 1
    /\ \A a, b \in 1..Len(turn.issued) : a < b => turn.issued[a] < turn.issued[b]
    /\ \A k \in 1..Len(turn.issued) :
          /\ turn.issued[k] \in 1..Len(turn.tool_calls)
          /\ k < Len(turn.issued) => turn.issued[k] \in Range(turn.settled)
          /\ \A i \in 1..(turn.issued[k] - 1) :
                turn.tool_calls[i].name \in {"add_task", "update_task", "complete_task", "delete_task"}
                    => i \in Range(turn.issued)
    /\ \A r \in TaskRequests : r.entry = turn.issued[Len(turn.issued)]

\* a list of three calls whose third request is in flight after the first two settled
C1_Witness ==
    /\ pc = "awaitTool"
    /\ Len(turn.tool_calls) = 3
    /\ turn.issued = <<1, 2, 3>>
    /\ turn.settled = <<1, 2>>

\* the object the claims read the fields of a call from: `arguments`, or the legacy
\* `parameters` when `arguments` is missing
SuppliedArgs(call) ==
    IF call.arguments # NoObj THEN call.arguments
    ELSE IF call.parameters # NoObj THEN call.parameters
    ELSE [k \in ArgKeys |-> Undef]

OnlyCall == turn.tool_calls[1]

\* C2 as stated: an add_task call yields exactly one create-task request and nothing
\* else, with title, description and priority as supplied, and "New Task", "" and
\* "medium" for the fields that are missing.
C2_AsStated ==
    (turn.responded /\ Len(turn.tool_calls) = 1 /\ OnlyCall.name = "add_task") =>
        LET args == SuppliedArgs(OnlyCall)
            Field(v, d) == IF v = Undef THEN d ELSE v
        IN /\ turn.issued = <<1>>
           /\ \A r \in TaskRequests :
                 /\ r.req.op = "createTask"
                 /\ r.req.body = { <<"title", Field(args.title, "New Task")>>,
                                   <<"description", Field(args.description, "")>>,
                                   <<"priority", Field(args.priority, "medium")>> }

\* C2, amended: an add_task call yields exactly one create-task request and nothing
\* else; a title that is missing or empty is taken from task_title, and is "New Task"
\* when task_title is missing or empty too; a missing or empty description is "", a
\* missing or empty priority is "medium"; every other supplied value is passed on.
C2_AddTask ==
    (turn.responded /\ Len(turn.tool_calls) = 1 /\ OnlyCall.name = "add_task") =>
        LET args == SuppliedArgs(OnlyCall)
            Field(v, d) == IF v \in {Undef, ""} THEN d ELSE v
        IN /\ turn.issued = <<1>>
           /\ Cardinality(TaskRequests) <= 1
           /\ pc = "awaitTool" => Cardinality(TaskRequests) = 1
           /\ \A r \in TaskRequests :
                 /\ r.req.op = "createTask"
                 /\ r.req.method = "POST"
                 /\ r.req.body = { <<"title", Field(args.title, Field(args.task_title, "New Task"))>>,
                                   <<"description", Field(args.description, "")>>,
                                   <<"priority", Field(args.priority, "medium")>> }

\* the call add_task {title: "Buy milk"} has its create-task request in flight
C2_Witness ==
    /\ pc = "awaitTool"
    /\ Len(turn.tool_calls) = 1
    /\ OnlyCall = [name |-> "add_task",
                   arguments |-> Obj("Buy milk", Undef, Undef, Undef, Undef, Undef),
                   parameters |-> NoObj]
    /\ \E r \in TaskRequests :
          r.req.body = { <<"title", "Buy milk">>, <<"description", "">>, <<"priority", "medium">> }

\* C3: the request of a complete_task call is an update of the supplied task_id whose
\* status is "completed" and nothing else, whatever status the call supplied; the other
\* supplied fields are passed on.
C3_CompleteTask ==
    (turn.responded /\ Len(turn.tool_calls) = 1 /\ OnlyCall.name = "complete_task") =>
        LET args == SuppliedArgs(OnlyCall)
        IN /\ turn.issued = <<1>>
           /\ pc = "awaitTool" => Cardinality(TaskRequests) = 1
           /\ \A r \in TaskRequests :
                 /\ r.req.op = "updateTask"
                 /\ r.req.method = "PUT"
                 /\ Len(r.req.path) = 4
                 /\ r.req.path[3] = "tasks"
                 /\ args.task_id # Undef => r.req.path[4] = args.task_id
                 /\ <<"status", "completed">> \in r.req.body
                 /\ \A kv \in r.req.body : kv[1] = "status" => kv[2] = "completed"
                 /\ \A k \in ArgKeys \ {"status"} : args[k] # Undef => <<k, args[k]>> \in r.req.body

\* a complete_task call that supplies status "pending" has its update request in flight
C3_Witness ==
    /\ pc = "awaitTool"
    /\ Len(turn.tool_calls) = 1
    /\ OnlyCall.name = "complete_task"
    /\ OnlyCall.arguments # NoObj
    /\ OnlyCall.arguments.status = "pending"
    /\ OnlyCall.arguments.task_id = "T1"
    /\ \E r \in TaskRequests : <<"status", "completed">> \in r.req.body

FourNames == {"add_task", "update_task", "complete_task", "delete_task"}

LastMessage == messages[Len(messages)]

\* C4: an entry with an unrecognized name has no request, raises nothing and appends no
\* error message, and the recognized entries before and after it are processed: a turn
\* in which no request failed ends with a request issued and settled for every
\* recognized entry and with the assistant's answer as the last message.
C4_UnknownSkipped ==
    /\ \A i \in 1..Len(turn.tool_calls) :
          turn.tool_calls[i].name \notin FourNames =>
              /\ i \notin Range(turn.issued)
              /\ \A r \in TaskRequests : r.entry # i
    /\ (turn.responded /\ turn.failed = 0) => LastMessage.kind = "assistant"
    /\ (turn.responded /\ turn.failed = 0 /\ pc = "idle") =>
          \A i \in 1..Len(turn.tool_calls) :
              turn.tool_calls[i].name \in FourNames =>
                  i \in Range(turn.issued) /\ i \in Range(turn.settled)

\* a finished turn whose list has an unrecognized entry between two recognized ones
C4_Witness ==
    /\ pc = "idle"
    /\ turn.responded
    /\ Len(turn.tool_calls) = 3
    /\ turn.tool_calls[1].name \in FourNames
    /\ turn.tool_calls[2].name \notin FourNames
    /\ turn.tool_calls[3].name \in FourNames
    /\ turn.settled = <<1, 3>>
    /\ LastMessage.kind = "assistant"

\* C5: at most one chat request is in flight, and only while the chat is Sending; a
\* submit event that arrives while the chat is Sending changes nothing: no request, no
\* message.
C5_SingleSubmission ==
    /\ [](Cardinality(ChatRequests) <= 1 /\ (ChatRequests # {} => isLoading))
    /\ [][(isLoading /\ lastEvent' \in {"submit", "submit-ignored"}) =>
              UNCHANGED <<messages, inflight, isLoading, input, pc, turn, timers, turns>>]_vars

\* a submit event was ignored while the chat request of the turn is in flight
C5_Witness ==
    /\ lastEvent = "submit-ignored"
    /\ isLoading
    /\ Cardinality(ChatRequests) = 1

\* C6 as stated: after a failed tool call the remaining calls of the turn are still
\* executed, so a finished turn has issued a request for every recognized entry after
\* the failed one.
C6_AsStated ==
    (pc = "idle" /\ turn.failed > 0) =>
        \A i \in 1..Len(turn.tool_calls) :
            (i > turn.failed /\ turn.tool_calls[i].name \in FourNames) => i \in Range(turn.issued)

\* C6, amended: a failed tool call ends the turn's dispatch.  The requests issued before
\* it stay issued and settled and nothing is issued to undo them; no request is issued
\* for any entry after the failed one.
C6_HaltOnFailure ==
    turn.failed > 0 =>
        /\ pc = "idle"
        /\ TaskRequests = {}
        /\ turn.settled = turn.issued
        /\ turn.issued[Len(turn.issued)] = turn.failed
        /\ \A i \in 1..Len(turn.tool_calls) :
              i \in Range(turn.issued) <=> (i <= turn.failed /\ turn.tool_calls[i].name \in FourNames)

\* call 2 of 3 failed: call 1 was executed and call 3, which has a case, was not
C6_Witness ==
    /\ turn.failed = 2
    /\ Len(turn.tool_calls) = 3
    /\ turn.tool_calls[3].name \in FourNames
    /\ turn.issued = <<1, 2>>
    /\ pc = "idle"

\* C8 as stated: a turn schedules the refresh if and only if its response carried at
\* least one tool call.
C8_AsStated ==
    (pc = "idle" /\ turn.responded) => (turn.refreshScheduled <=> Len(turn.tool_calls) > 0)

\* C8, amended: a turn schedules the refresh if and only if its response carried at least
\* one tool call, no tool call of the turn failed and the host passed an onTaskUpdate
\* callback; it does so only when all tool calls of the turn have been processed.
C8_Refresh ==
    /\ turn.refreshScheduled =>
          /\ Len(turn.tool_calls) > 0
          /\ pc = "idle"
          /\ turn.failed = 0
          /\ chatHost = "dashboard"
          /\ TaskRequests = {}
          /\ \A i \in 1..Len(turn.tool_calls) :
                turn.tool_calls[i].name \in FourNames => i \in Range(turn.settled)
    /\ (pc = "idle" /\ turn.responded /\ Len(turn.tool_calls) > 0 /\ turn.failed = 0
            /\ chatHost = "dashboard") => turn.refreshScheduled
    /\ timers > 0 => chatHost = "dashboard"

\* a turn with two tool calls has scheduled the refresh
C8_Witness ==
    /\ turn.refreshScheduled
    /\ Len(turn.tool_calls) = 2
    /\ turn.settled = <<1, 2>>
    /\ timers > 0

\* C9 as stated: every request of a turn is made for the session's user id, and for the
\* UUID-shaped placeholder when the session has no user id.
C9_AsStated ==
    \A r \in inflight :
        r.req.path[2] = IF turn.sessionId \in {Undef, Null, ""} THEN DEMO_UUID ELSE turn.sessionId

\* C7: a step in which the chat request or a tool call fails appends an assistant-role
\* error message and leaves the chat Idle, and a chat that is Sending always becomes
\* Idle again, given that every request settles.
C7_ErrorsCaught ==
    /\ [][((turn'.chatFailed /\ ~turn.chatFailed) \/ (turn'.failed > 0 /\ turn.failed = 0)) =>
              /\ Len(messages') = Len(messages) + 1
              /\ messages'[Len(messages')].role = "assistant"
              /\ messages'[Len(messages')].kind = "error"
              /\ \A k \in 1..Len(messages) : messages'[k] = messages[k]
              /\ ~isLoading'
              /\ pc' = "idle"]_vars
    /\ (isLoading ~> ~isLoading)

\* a turn whose second tool call failed has ended Idle with the error message last
C7_Witness ==
    /\ turn.failed = 2
    /\ ~isLoading
    /\ pc = "idle"
    /\ LastMessage.kind = "error"
    /\ LastMessage.role = "assistant"

\* C10: signOut leaves no localStorage entry and no session in the module variable,
\* whatever the state it is called in, and a second signOut changes nothing more.
C10_SignOutClears ==
    /\ lastEvent = "signOut" => (storage = NoEntry /\ _session = NoSession /\ location = "/login")
    /\ LET once  == signOutStore(Store)
           twice == signOutStore(once)
       IN /\ once.storage = NoEntry
          /\ once._session = NoSession
          /\ twice = once

\* signOut has run while the dashboard was showing a signed-in user
C10_Witness ==
    /\ lastEvent = "signOut"
    /\ storage = NoEntry
    /\ _session = NoSession
    /\ hooks["dashboard"].stage = "mounted"
    /\ SessionHasUser(hooks["dashboard"].session)


----------------------------------------------------------------------------
(* The session store *)

\* the user id a load of the persisted entry yields
StoredUserId == SessionUserId(checkSession(storage))

\* C11: once signIn or signUp has written the session, and until signOut or another
\* write of the entry, every read of the session yields the id that call generated:
\* the in-memory slot whenever it is loaded, and a load of the persisted entry
C11_StableUserId ==
    audit.signedIn =>
        /\ StoredUserId = generateUUID
        /\ ~_loading => SessionUserId(_session) = generateUUID

\* a page load after a signUp has loaded the session back from the persisted entry
C11_Witness ==
    /\ audit.signedIn
    /\ audit.reloaded
    /\ ~_loading
    /\ _session = [user |-> [id |-> generateUUID, email |-> "ann@x.io", name |-> "Ann"]]

\* the persisted entry is present and is not JSON (the empty string included)
Malformed(entry) == entry # NoEntry /\ ~Parses(entry.text)

\* C12: a load that finds a malformed persisted entry ends as "no session": the slot
\* is null, loading is finished, and the view that ran it reads a null session
C12_MalformedIsNoSession ==
    [][ (_loading /\ ~_loading' /\ lastEvent' = "effect" /\ Malformed(storage)) =>
            /\ _session' = NoSession
            /\ \E v \in Views :
                  /\ hooks[v].stage = "rendered"
                  /\ hooks'[v] = [stage |-> "mounted", session |-> NoSession, loading |-> FALSE] ]_vars

\* a load has just run over an entry that is not JSON, and left no session
C12_Witness ==
    /\ lastEvent = "effect"
    /\ audit.checks
    /\ storage = [text |-> <<"{", "id">>]
    /\ _session = NoSession
    /\ ~_loading

\* a session's user is null or has its three fields
FullyPopulated(sess) ==
    \/ sess = NoSession
    \/ sess.user = NoObj
    \/ \A k \in {"id", "email", "name"} : sess.user[k] # Undef

\* C13 as stated: in every reachable state the session's user, in the slot and in
\* every view, is fully populated or null
C13_AsStated ==
    /\ FullyPopulated(_session)
    /\ \A v \in Views : FullyPopulated(hooks[v].session)

\* C14: a view that has rendered reads isLoading true until the first load has
\* completed, and reads "not loading, no user" only after a load found no user in
\* the persisted entry or after a signOut
C14_LoadingMarker ==
    \A v \in Views :
        hooks[v].stage # "unmounted" =>
            /\ _loading => hooks[v].loading
            /\ (~hooks[v].loading /\ ~SessionHasUser(hooks[v].session)) =>
                   (audit.foundNone \/ audit.signedOut)

\* one view still reads the loading marker while another reads "no user" after the load
C14_Witness ==
    /\ audit.foundNone
    /\ ~audit.signedOut
    /\ hooks["dashboard"] = [stage |-> "mounted", session |-> NoSession, loading |-> FALSE]
    /\ hooks["chat"] = [stage |-> "rendered", session |-> NoSession, loading |-> TRUE]

\* C15 as stated: a mounted view whose session differs from the slot eventually reads
\* the slot's value (or is unmounted)
C15_AsStated ==
    \A v \in Views :
        (hooks[v].stage = "mounted" /\ ~_loading /\ hooks[v].session # _session)
            ~> (hooks[v].stage # "mounted" \/ hooks[v].session = _session)

----------------------------------------------------------------------------
(* The Dashboard *)

\* C16: the Dashboard calls router.push('/login') exactly when its session has
\* finished loading and holds no user, and then makes no getUserTasks call; it calls
\* getUserTasks only with the id of its session's user, and does neither while loading
C16_RedirectWithoutFetch ==
    LET h == hooks["dashboard"]
        anonymous == h.stage = "mounted" /\ ~h.loading /\ ~SessionHasUser(h.session)
    IN /\ dash.redirected <=> anonymous
       /\ anonymous => (location = "/login" /\ ~dash.called /\ dash.fetches = <<>>)
       /\ dash.called => Truthy(SessionUserId(h.session))
       /\ \A k \in 1..Len(dash.fetches) :
             dash.fetches[k].path = <<"api", SessionUserId(h.session), "tasks?status=all">>
       /\ (h.stage # "unmounted" /\ h.loading) => (~dash.redirected /\ ~dash.called)

\* the load found no entry and the Dashboard has redirected without a fetch
C16_Witness ==
    /\ storage = NoEntry
    /\ hooks["dashboard"] = [stage |-> "mounted", session |-> NoSession, loading |-> FALSE]
    /\ dash.redirected
    /\ location = "/login"
    /\ ~dash.called

\* the indices of the completed tasks of a list
CompletedAt(tasks) == { i \in 1..Len(tasks) : tasks[i].status = "completed" }

\* C17: the summary cards show Total = the number of tasks, Completed = the number
\* whose status is "completed", Pending = the number of all others, so that
\* Total = Pending + Completed; two pending tasks and a completed one show 3 / 2 / 1
C17_SummaryCounts ==
    DashboardShowsChat =>
        LET cards == Summary(dash.tasks)
            done  == Cardinality(CompletedAt(dash.tasks))
        IN /\ cards.total = Len(dash.tasks)
           /\ cards.completed = done
           /\ cards.pending = Len(dash.tasks) - done
           /\ cards.total = cards.pending + cards.completed
           /\ (/\ Len(dash.tasks) = 3
               /\ done = 1
               /\ \A i \in 1..3 : dash.tasks[i].status \in {"pending", "completed"})
                  => cards = [total |-> 3, pending |-> 2, completed |-> 1]

\* the Dashboard shows the cards of a fetched list of two pending tasks and a completed one
C17_Witness ==
    /\ DashboardShowsChat
    /\ dash.tasks = <<[status |-> "pending"], [status |-> "completed"], [status |-> "pending"]>>
    /\ Summary(dash.tasks) = [total |-> 3, pending |-> 2, completed |-> 1]

\* the list the last applied getUserTasks response carried, empty before the first
LastFetched(d) == IF d.fetched = NoObj THEN <<>> ELSE ResponseTasks(d.fetched)

\* C19: while the Dashboard is mounted its task list changes only in a step that
\* applies the response of a getUserTasks request, to the list of that response; no
\* chat submission, tool dispatch, refresh timer or failed fetch changes it, so the
\* list always is the one of the last successful fetch
C19_TasksFromFetchOnly ==
    [][ /\ (dash'.tasks # dash.tasks /\ hooks'["dashboard"].stage # "unmounted") =>
              /\ lastEvent' = "fetch-ok"
              /\ Len(dash'.fetches) = Len(dash.fetches) - 1
              /\ dash'.fetched \in TaskResponses
        /\ dash'.tasks = LastFetched(dash') ]_vars

\* a fetch has filled the list, the chat has dispatched a tool call, and a later fetch failed
C19_Witness ==
    /\ lastEvent = "fetch-fail"
    /\ turn.settled # <<>>
    /\ dash.tasks # <<>>
    /\ dash.tasks = LastFetched(dash)

----------------------------------------------------------------------------
(* The chat turn *)

C20_AsStated ==
    [][ (~ChatMounted /\ lastEvent' \in {"chat-ok", "chat-fail", "tool-ok", "tool-fail"}) =>
            /\ messages' = messages
            /\ inflight' \subseteq inflight
            /\ timers' = timers ]_vars

----------------------------------------------------------------------------
(* The transcript *)

\* the transcript as it was when the pending chat request was submitted
BeforeSubmission == SubSeq(messages, 1, Len(messages) - 1)

\* the conversation_id field of a request body
ConversationIdOf(r) == (CHOOSE kv \in r.req.body : kv[1] = "conversation_id")[2]

\* C21: the chat request in flight carries the conversationId of the last message the
\* transcript had before the submission, else null: null on an empty transcript, the
\* conversation_id of the previous response when that turn's last message is the
\* assistant's answer, and null when the last message is an error message
C21_ConversationId ==
    pc = "awaitChat" =>
        \A r \in ChatRequests :
            LET before == BeforeSubmission
                last   == before[Len(before)]
            IN /\ messages[Len(messages)].kind = "user"
               /\ before = <<>> => ConversationIdOf(r) = Null
               /\ (before # <<>> /\ last.kind = "assistant") =>
                      (ConversationIdOf(r) = last.conversationId /\ ConversationIdOf(r) \in ConvIds)
               /\ (before # <<>> /\ last.kind = "error") => ConversationIdOf(r) = Null
               /\ turn.conversationId = ConversationIdOf(r)

\* the second turn follows a turn whose tool call failed: its request carries null
\* although the answer before the error message had a conversation_id
C21_Witness ==
    /\ pc = "awaitChat"
    /\ turns = 2
    /\ Len(messages) = 4
    /\ messages[2].conversationId = "c1"
    /\ messages[3].kind = "error"
    /\ \A r \in ChatRequests : ConversationIdOf(r) = Null

\* the kinds of the messages of a transcript
Kinds(msgs) == [k \in 1..Len(msgs) |-> msgs[k].kind]

\* the messages the current turn has appended so far, by kind
TurnKinds ==
    <<"user">> \o (IF turn.responded THEN <<"assistant">> ELSE <<>>)
               \o (IF turn.chatFailed \/ turn.failed # 0 THEN <<"error">> ELSE <<>>)

IsPrefix(p, q) == Len(p) <= Len(q) /\ SubSeq(q, 1, Len(p)) = p

\* C22: the transcript only grows, by one message per step, while the page lives; an
\* accepted submission appends the user message in the step that sends the chat
\* request, and the transcript then ends with what the turn has appended: the user
\* message, then the assistant's answer once the chat request succeeded, then one error
\* message once the chat request or a tool call failed
C22_Transcript ==
    [][ /\ lastEvent' # "load" =>
              /\ IsPrefix(messages, messages')
              /\ Len(messages') <= Len(messages) + 1
        /\ (lastEvent' = "submit") =>
              /\ messages' = Append(messages, UserMessage(input))
              /\ \E r \in inflight' \ inflight : r.entry = 0
        /\ turns' > 0 =>
              /\ Len(messages') >= Len(TurnKinds')
              /\ SubSeq(Kinds(messages'), Len(messages') - Len(TurnKinds') + 1, Len(messages'))
                    = TurnKinds'
              /\ Cardinality({k \in 1..Len(messages') : messages'[k].kind = "user"}) = turns' ]_vars

\* the chat request succeeded and a tool call failed: user message, answer, error message
C22_Witness ==
    /\ turn.responded
    /\ turn.failed # 0
    /\ Kinds(messages) = <<"user", "assistant", "error">>

----------------------------------------------------------------------------
(* The slot and the persisted entry *)

====
